---- MODULE Spec2Model ----
(***************************************************************************)
(* Model of the Markopolo AI backend (src/backend/server.js): the session  *)
(* store behind POST /api/connect, the validation and document generation  *)
(* of GET /api/generate-campaign, and the timer-driven chunked stream of   *)
(* streamJSONResponse with its 'close' handler.                            *)
(*                                                                         *)
(* JavaScript strings are TLA+ strings.  The value undefined (an absent    *)
(* body field or query parameter, a failed property lookup) is the         *)
(* reserved string Undefined, which no input set uses as a real string.    *)
(***************************************************************************)
EXTENDS Integers, Sequences, FiniteSets, TLC

(***************************************************************************)
(* Bounds of the model.                                                    *)
(***************************************************************************)
\* number of generate requests (connections) the model follows
MaxRequests == 1
\* number of connect calls the model follows; also bounds the clock
MaxConnects == 2
\* number of connect calls followed where only the session store is studied
MaxStoreConnects == 3

Undefined == "<undefined>"

Conns == 1..MaxRequests
\* the connections of the server: those of the requests above and one more,
\* for the specifications that study a second, concurrent stream
Sockets == 1..(MaxRequests + 1)

\* values of req.body.sessionId / req.query.sessionId
SessionIdInputs == {"s1", "s2"}
\* values of req.body.source: a known id, an unknown one and a name that
\* every object inherits from Object.prototype
SourceInputs == {"shopify", "unknown-x", "constructor"}
\* values of req.query.type: absent, and a type the channel selection knows
TypeInputs == {Undefined, "flash-sale"}
\* values of req.query.channels (a comma separated list)
ChannelsInputs == {Undefined, "email,sms", "fax"}
\* values of req.body.source where only the session store is studied: every
\* known id, an unknown one, an inherited name, and an absent field
StoreSourceInputs ==
    {"facebook-pixel", "shopify", "google-ads", "unknown-x", "constructor",
     Undefined}

(***************************************************************************)
(* JavaScript helpers.                                                     *)
(***************************************************************************)
Min(a, b) == IF a < b THEN a ELSE b

\* String.prototype.slice(from, to) for 0 <= from <= to: the characters at
\* the 0-based positions from .. to-1, clamped to the string's length
Slice(s, from, to) ==
    IF from >= Len(s) \/ from >= to THEN ""
    ELSE SubSeq(s, from + 1, Min(to, Len(s)))

\* Array.prototype.includes
Includes(seq, x) == \E i \in 1..Len(seq) : seq[i] = x

\* seq is a prefix of longer
IsPrefix(seq, longer) ==
    /\ Len(seq) <= Len(longer)
    /\ \A i \in 1..Len(seq) : seq[i] = longer[i]

\* position of the first sep at or after position i of s (1-based), or 0
RECURSIVE IndexOfFrom(_, _, _)
IndexOfFrom(s, sep, i) ==
    IF i > Len(s) THEN 0
    ELSE IF SubSeq(s, i, i) = sep THEN i
    ELSE IndexOfFrom(s, sep, i + 1)

\* String.prototype.split(sep) for a one-character separator
RECURSIVE Split(_, _)
Split(s, sep) ==
    LET p == IndexOfFrom(s, sep, 1) IN
    IF p = 0 THEN <<s>>
    ELSE <<Slice(s, 0, p - 1)>> \o Split(Slice(s, p, Len(s)), sep)

\* the names every object literal inherits from Object.prototype; a lookup
\* obj[key] with one of them yields a (truthy) function, whose .name is the
\* key itself, except for constructor, which is the function Object
ObjectPrototypeKeys ==
    {"constructor", "toString", "valueOf", "hasOwnProperty",
     "isPrototypeOf", "propertyIsEnumerable", "toLocaleString"}
FunctionName(key) == IF key = "constructor" THEN "Object" ELSE key

(***************************************************************************)
(* DATA_SOURCES and CHANNELS.                                              *)
(***************************************************************************)
KnownSources == {"facebook-pixel", "shopify", "google-ads"}

\* DATA_SOURCES[source]: the configured entry, an inherited function, or
\* undefined.  Of mockData the model keeps the audience figure that
\* generateCampaign adds up.
DATA_SOURCES(source) ==
    CASE source = "facebook-pixel" ->
            [defined |-> TRUE, name |-> "Facebook Pixel", audience |-> 15420]
      [] source = "shopify" ->
            [defined |-> TRUE, name |-> "Shopify", audience |-> 8450]
      [] source = "google-ads" ->
            [defined |-> TRUE, name |-> "Google Ads Tag", audience |-> 0]
      [] source \in ObjectPrototypeKeys ->
            [defined |-> TRUE, name |-> FunctionName(source), audience |-> 0]
      [] OTHER ->
            [defined |-> FALSE, name |-> Undefined, audience |-> 0]

KnownChannels == {"email", "sms", "whatsapp", "ads"}

\* CHANNELS[channel]
CHANNELS(channel) ==
    CASE channel = "email" -> [defined |-> TRUE, name |-> "Email"]
      [] channel = "sms" -> [defined |-> TRUE, name |-> "SMS"]
      [] channel = "whatsapp" -> [defined |-> TRUE, name |-> "WhatsApp"]
      [] channel = "ads" -> [defined |-> TRUE, name |-> "Ads"]
      [] channel \in ObjectPrototypeKeys ->
            [defined |-> TRUE, name |-> FunctionName(channel)]
      [] OTHER -> [defined |-> FALSE, name |-> Undefined]

(***************************************************************************)
(* generateCampaign.  The Document of the model keeps the fields of the    *)
(* campaign object that depend on the request and on the session           *)
(* (campaign.type, campaign.dataSources, campaign.estimatedReach and the   *)
(* channel block); the campaign id and the timestamps are wall-clock and   *)
(* random values, the other fields are constant texts.                     *)
(***************************************************************************)
\* totalAudience after the forEach over connectedSources
RECURSIVE totalAudience(_)
totalAudience(connectedSources) ==
    IF connectedSources = <<>> THEN 0
    ELSE LET source == Head(connectedSources) IN
         (IF source \in {"facebook-pixel", "shopify"}
             THEN DATA_SOURCES(source).audience ELSE 0)
         + totalAudience(Tail(connectedSources))

\* the channel preferred for a campaign type, or Undefined for other types
PreferredChannel(campaignType) ==
    CASE campaignType \in {"flash-sale", "urgent"} -> "sms"
      [] campaignType \in {"product-launch", "detailed"} -> "email"
      [] campaignType \in {"retargeting", "awareness"} -> "ads"
      [] OTHER -> Undefined

\* a selection that takes the first selected channel whatever the type
selectedChannelFirst(connectedSources, campaignType, selectedChannels) ==
    IF Len(selectedChannels) > 0 THEN selectedChannels[1]
    ELSE IF PreferredChannel(campaignType) # Undefined
         THEN PreferredChannel(campaignType)
    ELSE IF totalAudience(connectedSources) < 5000 THEN "whatsapp"
    ELSE "email"

\* a selection whose audience threshold lies above one shop's customers
selectedChannelHighThreshold(connectedSources, campaignType, selectedChannels) ==
    LET preferred == PreferredChannel(campaignType) IN
    IF Len(selectedChannels) > 0
    THEN IF preferred # Undefined /\ Includes(selectedChannels, preferred)
            THEN preferred
            ELSE selectedChannels[1]
    ELSE IF preferred # Undefined THEN preferred
         ELSE IF totalAudience(connectedSources) < 10000 THEN "whatsapp"
         ELSE "email"

\* a selection by the audience size alone
selectedChannelByAudience(connectedSources, campaignType, selectedChannels) ==
    IF totalAudience(connectedSources) < 5000 THEN "whatsapp" ELSE "email"

\* selectedChannel at the end of the channel selection algorithm
selectedChannel(connectedSources, campaignType, selectedChannels) ==
    LET preferred == PreferredChannel(campaignType) IN
    IF Len(selectedChannels) > 0
    THEN IF preferred # Undefined /\ Includes(selectedChannels, preferred)
            THEN preferred
            ELSE selectedChannels[1]
    ELSE IF preferred # Undefined THEN preferred
         ELSE IF totalAudience(connectedSources) < 5000 THEN "whatsapp"
         ELSE "email"

\* display names of the connected sources
RECURSIVE SourceNames(_)
SourceNames(connectedSources) ==
    IF connectedSources = <<>> THEN <<>>
    ELSE <<DATA_SOURCES(Head(connectedSources)).name>>
         \o SourceNames(Tail(connectedSources))

\* generateCampaign throws a TypeError when it reads a property of
\* CHANNELS[selectedChannel] and that lookup is undefined
generateCampaignThrows(connectedSources, campaignType, selectedChannels) ==
    ~CHANNELS(selectedChannel(connectedSources, campaignType,
                              selectedChannels)).defined

generateCampaign(connectedSources, campaignType, selectedChannels) ==
    LET ch == selectedChannel(connectedSources, campaignType,
                              selectedChannels) IN
    [campaign |-> [type |-> campaignType,
                   dataSources |-> SourceNames(connectedSources),
                   estimatedReach |-> totalAudience(connectedSources)],
     channel |-> [primary |-> ch,
                  name |-> CHANNELS(ch).name,
                  fallback |-> IF ch = "sms" THEN "email" ELSE "sms"]]

(***************************************************************************)
(* JSON.stringify(data, null, 2) of a Document.                            *)
(***************************************************************************)
Quote(s) == "\"" \o s \o "\""

\* the elements of an array of strings, one per line at the given indent
RECURSIVE StringifyElements(_, _)
StringifyElements(arr, indent) ==
    IF arr = <<>> THEN ""
    ELSE indent \o Quote(Head(arr))
         \o (IF Len(arr) > 1 THEN ",\n" ELSE "\n")
         \o StringifyElements(Tail(arr), indent)

StringifyArray(arr, indent) ==
    IF arr = <<>> THEN "[]"
    ELSE "[\n" \o StringifyElements(arr, indent \o "  ") \o indent \o "]"

Stringify(data) ==
    "{\n"
    \o "  \"campaign\": {\n"
    \o "    \"type\": " \o Quote(data.campaign.type) \o ",\n"
    \o "    \"dataSources\": "
    \o StringifyArray(data.campaign.dataSources, "    ") \o ",\n"
    \o "    \"estimatedReach\": "
    \o ToString(data.campaign.estimatedReach) \o "\n"
    \o "  },\n"
    \o "  \"channel\": {\n"
    \o "    \"primary\": " \o Quote(data.channel.primary) \o ",\n"
    \o "    \"name\": " \o Quote(data.channel.name) \o ",\n"
    \o "    \"fallback\": " \o Quote(data.channel.fallback) \o "\n"
    \o "  }\n"
    \o "}"

(***************************************************************************)
(* State.                                                                  *)
(***************************************************************************)
VARIABLES
    sessions,    \* the Map sessions: sessionId -> {connectedSources, createdAt}
    now,         \* Date.now(), advanced by every connect call
    connectRes,  \* the response of the last /api/connect call
    res,         \* per connection: the response object
    stream,      \* per connection: the closure of streamJSONResponse
    written,     \* per connection: the events passed to res.write, in order
    closed,      \* per connection: the request's 'close' event was emitted
    released,    \* per connection: the teardown paths that ran, in order
    staticRes,   \* the response of the last health, data-sources or
                 \* channels call
    client,      \* the state of the App component of one browser tab
    eventSource  \* per connection: the EventSource the client opened on
                 \* it, with the locals of its handlers

vars == <<sessions, now, connectRes, res, stream, written, closed,
          released, staticRes, client, eventSource>>

\* the variables of the client
clientVars == <<client, eventSource>>

\* statusCode 0: no generate request has arrived on the connection yet
NoResponse == [statusCode |-> 0, error |-> "", eventStream |-> FALSE,
               ended |-> FALSE]
NoDocument == [campaign |-> [type |-> "", dataSources |-> <<>>,
                             estimatedReach |-> 0],
               channel |-> [primary |-> "", name |-> "", fallback |-> ""]]
\* interval: "none" before setInterval, "active" while the timer is set,
\* "cleared" after clearInterval; listening: req.on('close') was called
NoStream == [jsonString |-> "", data |-> NoDocument, index |-> 0,
             interval |-> "none", listening |-> FALSE]
NoConnect == [statusCode |-> 0, error |-> "", connectedSources |-> <<>>]
NoStatic == [path |-> "", body |-> <<>>]

\* no timeout is pending
NoTimer == [pending |-> FALSE, inputValue |-> "",
            connectedSources |-> <<>>, selectedChannels |-> <<>>]
\* the App component after its first render.  timer is the pending
\* setTimeout callback of handleSendMessage with the values its closure
\* captured; responses are the connect responses on their way to the
\* client; gestures counts the clicks and submits of the user.
InitialClient ==
    [sessionId |-> "s1", messages |-> <<>>, isLoading |-> FALSE,
     connectedSources |-> <<>>, availableSources |-> <<>>,
     selectedChannels |-> <<>>, isStreaming |-> FALSE,
     timer |-> NoTimer, responses |-> {}, gestures |-> 0]
\* readyState "none": the client opened no EventSource on the connection
NoEventSource == [readyState |-> "none", received |-> 0,
                  accumulatedContent |-> "", streamMessageId |-> 0]

Init ==
    /\ sessions = <<>>
    /\ now = 0
    /\ connectRes = NoConnect
    /\ res = [c \in Sockets |-> NoResponse]
    /\ stream = [c \in Sockets |-> NoStream]
    /\ written = [c \in Sockets |-> <<>>]
    /\ closed = [c \in Sockets |-> FALSE]
    /\ released = [c \in Sockets |-> <<>>]
    /\ staticRes = NoStatic
    /\ client = InitialClient
    /\ eventSource = [c \in Sockets |-> NoEventSource]

(***************************************************************************)
(* POST /api/connect                                                       *)
(***************************************************************************)
\* sessions.has(sessionId)
Has(store, sessionId) == sessionId \in DOMAIN store

\* the source list of a session, <<>> for a session not in the store
SourcesOf(store, sessionId) ==
    IF Has(store, sessionId) THEN store[sessionId].connectedSources ELSE <<>>

\* the validation of the source: DATA_SOURCES[source] is truthy
SourceAccepted(source) == DATA_SOURCES(source).defined

\* a store that pushes the source whether or not it is included
ConnectStoreAlwaysPush(store, sessionId, source, time) ==
    LET created == IF Has(store, sessionId) THEN store
                   ELSE (sessionId :> [connectedSources |-> <<>>,
                                       createdAt |-> time]) @@ store
    IN  [created EXCEPT ![sessionId].connectedSources = Append(@, source)]

\* a store that puts a new source in front of the list
ConnectStoreUnshift(store, sessionId, source, time) ==
    LET created == IF Has(store, sessionId) THEN store
                   ELSE (sessionId :> [connectedSources |-> <<>>,
                                       createdAt |-> time]) @@ store
        session == created[sessionId]
    IN  IF Includes(session.connectedSources, source) THEN created
        ELSE [created EXCEPT ![sessionId].connectedSources =
                                 <<source>> \o @]

\* a store that creates an absent session and pushes to present ones only
ConnectStoreCreateOrPush(store, sessionId, source, time) ==
    IF ~Has(store, sessionId)
    THEN (sessionId :> [connectedSources |-> <<>>, createdAt |-> time])
             @@ store
    ELSE IF Includes(store[sessionId].connectedSources, source) THEN store
    ELSE [store EXCEPT ![sessionId].connectedSources = Append(@, source)]

\* a store whose sessions share one source list
ConnectStoreSharedList(store, sessionId, source, time) ==
    LET created == IF Has(store, sessionId) THEN store
                   ELSE (sessionId :> [connectedSources |-> <<>>,
                                       createdAt |-> time]) @@ store
    IN  [id \in DOMAIN created |->
            IF Includes(created[id].connectedSources, source)
            THEN created[id]
            ELSE [created[id] EXCEPT !.connectedSources = Append(@, source)]]

\* a store that records the session and not the source
ConnectStoreSessionOnly(store, sessionId, source, time) ==
    IF Has(store, sessionId) THEN store
    ELSE (sessionId :> [connectedSources |-> <<>>, createdAt |-> time])
             @@ store

\* a store that sets a fresh session on every call
ConnectStoreAlwaysSet(store, sessionId, source, time) ==
    (sessionId :> [connectedSources |-> <<source>>, createdAt |-> time])
        @@ store

\* the store after the handler created the session (if absent) and pushed
\* the source (if not included)
ConnectStore(store, sessionId, source, time) ==
    LET created == IF Has(store, sessionId) THEN store
                   ELSE (sessionId :> [connectedSources |-> <<>>,
                                       createdAt |-> time]) @@ store
        session == created[sessionId]
    IN  IF Includes(session.connectedSources, source) THEN created
        ELSE [created EXCEPT ![sessionId].connectedSources =
                                 Append(@, source)]

\* the handler of a connect call, the limit-th call at most; the caller
\* says what becomes of the client
ConnectBounded(limit, sessionId, source) ==
    /\ now < limit
    /\ now' = now + 1
    /\ IF ~SourceAccepted(source)
       THEN /\ connectRes' = [statusCode |-> 400,
                              error |-> "Invalid data source",
                              connectedSources |-> <<>>]
            /\ UNCHANGED sessions
       ELSE /\ sessions' = ConnectStore(sessions, sessionId, source, now)
            /\ connectRes' =
                 [statusCode |-> 200, error |-> "",
                  connectedSources |->
                      SourceNames(sessions'[sessionId].connectedSources)]
    /\ UNCHANGED <<res, stream, written, closed, released, staticRes>>

\* a connect call of some other client
Connect(sessionId, source) ==
    /\ ConnectBounded(MaxConnects, sessionId, source)
    /\ UNCHANGED clientVars

\* a connect call where only the session store is studied
StoreConnect(sessionId, source) ==
    /\ ConnectBounded(MaxStoreConnects, sessionId, source)
    /\ UNCHANGED clientVars

(***************************************************************************)
(* streamJSONResponse                                                      *)
(***************************************************************************)
\* the chunk size, and the amount by which index advances per tick
ChunkSize == 50

\* a chunk that stops one character early
ChunkOneShort(jsonString, index) ==
    Slice(jsonString, index, index + ChunkSize - 1)

\* a chunk that runs to the end of the string
ChunkToEnd(jsonString, index) == Slice(jsonString, index, Len(jsonString))

\* the chunk sent by a tick at position index
Chunk(jsonString, index) == Slice(jsonString, index, index + ChunkSize)

\* an index that advances by one more than the chunk size
NextIndexOneMore(index) == index + ChunkSize + 1

\* index after a chunk was sent
NextIndex(index) == index + ChunkSize

\* the objects serialized into the SSE frames
ChunkEvent(chunk) == [chunk |-> chunk, done |-> FALSE]
\* a terminal event whose dataSources is the live list of the session
TerminalEventOfLiveList(data) ==
    LET sessionId == CHOOSE id \in DOMAIN sessions :
            IsPrefix(data.campaign.dataSources,
                     SourceNames(sessions[id].connectedSources))
    IN  [chunk |-> "", done |-> TRUE,
         complete |-> [data EXCEPT !.campaign.dataSources =
                          SourceNames(sessions[sessionId].connectedSources)]]

TerminalEvent(data) == [chunk |-> "", done |-> TRUE, complete |-> data]

\* a clearInterval that leaves the timer set
ClearIntervalKept(interval) == interval

\* clearInterval(interval)
ClearInterval(interval) == "cleared"

\* a closure whose timer was never set
OpenStreamNoTimer(data) ==
    [jsonString |-> Stringify(data), data |-> data, index |-> 0,
     interval |-> "none", listening |-> TRUE]

\* the closure right after streamJSONResponse returned: the document is
\* serialized once, the timer is set and the 'close' listener registered
OpenStream(data) ==
    [jsonString |-> Stringify(data), data |-> data, index |-> 0,
     interval |-> "active", listening |-> TRUE]

\* a terminal branch that leaves the timer set
TerminalTeardownNoClear(s) == s

\* the closure after the terminal branch of the timer callback
TerminalTeardown(s) == [s EXCEPT !.interval = ClearInterval(@)]

\* a 'close' handler that leaves the timer set
CloseTeardownNoClear(s) == s

\* the closure after the 'close' handler
CloseTeardown(s) == [s EXCEPT !.interval = ClearInterval(@)]

\* a cursor that all streams with a set timer share
AdvanceCursorShared(streams, c) ==
    [d \in DOMAIN streams |->
        IF streams[d].interval = "active"
        THEN [streams[d] EXCEPT !.index = NextIndex(@)]
        ELSE streams[d]]

\* index += 50 in the closure of connection c
AdvanceCursor(streams, c) == [streams EXCEPT ![c].index = NextIndex(@)]

\* one run of the setInterval callback of connection c
Tick(c) ==
    /\ stream[c].interval = "active"
    /\ IF stream[c].index < Len(stream[c].jsonString)
       THEN /\ written' = [written EXCEPT ![c] =
                  Append(@, ChunkEvent(Chunk(stream[c].jsonString,
                                             stream[c].index)))]
            /\ stream' = AdvanceCursor(stream, c)
            /\ UNCHANGED <<res, released>>
       ELSE /\ written' = [written EXCEPT ![c] =
                  Append(@, TerminalEvent(stream[c].data))]
            /\ stream' = [stream EXCEPT ![c] = TerminalTeardown(@)]
            /\ res' = [res EXCEPT ![c].ended = TRUE]
            /\ released' = [released EXCEPT ![c] = Append(@, "terminal")]
    /\ UNCHANGED <<sessions, now, connectRes, closed, staticRes>>
    /\ UNCHANGED clientVars

\* the request of connection c emits 'close' (the client went away, or the
\* connection was torn down after the response completed); the event is
\* emitted once, and the listener is never removed
Close(c) ==
    /\ stream[c].listening
    /\ ~closed[c]
    /\ closed' = [closed EXCEPT ![c] = TRUE]
    /\ stream' = [stream EXCEPT ![c] = CloseTeardown(@)]
    /\ res' = [res EXCEPT ![c].ended = TRUE]
    /\ released' = [released EXCEPT ![c] = Append(@, "close")]
    /\ UNCHANGED <<sessions, now, connectRes, written, staticRes>>
    /\ UNCHANGED clientVars

(***************************************************************************)
(* GET /api/generate-campaign                                              *)
(***************************************************************************)
\* req.query.type || 'general'
campaignTypeOf(type) ==
    IF type = Undefined \/ type = "" THEN "general" ELSE type

\* a split of every channels parameter that was sent
selectedChannelsOfSent(channels) ==
    IF channels = Undefined THEN <<>> ELSE Split(channels, ",")

\* req.query.channels ? req.query.channels.split(',') : []
selectedChannelsOf(channels) ==
    IF channels = Undefined \/ channels = "" THEN <<>>
    ELSE Split(channels, ",")

\* an error body sent without res.status(...)
ErrorResponseNoStatus(statusCode, error, eventStream) ==
    [statusCode |-> 200, error |-> error,
     eventStream |-> eventStream, ended |-> TRUE]

\* res.status(statusCode).json({ error }), or the error response of Express
ErrorResponse(statusCode, error, eventStream) ==
    [statusCode |-> statusCode, error |-> error,
     eventStream |-> eventStream, ended |-> TRUE]

\* a handler that creates the session it did not find
StoreAfterGenerateCreating(store, sessionId) ==
    IF Has(store, sessionId) THEN store
    ELSE (sessionId :> [connectedSources |-> <<>>, createdAt |-> 0]) @@ store

\* the store after a generate request: the handler reads the session with
\* sessions.get, and generateCampaign reads its list with forEach and map
StoreAfterGenerate(store, sessionId) == store

\* the handler of a generate request on connection c.  An exception thrown
\* by generateCampaign leaves the handler after the event-stream headers
\* were set and before streamJSONResponse is called; Express answers it
\* with its error response (status 500).  The caller says what becomes of
\* the client.
GenerateHandler(c, sessionId, type, channels) ==
    /\ res[c] = NoResponse
    /\ LET campaignType == campaignTypeOf(type)
           selectedChannels == selectedChannelsOf(channels)
       IN
       IF ~Has(sessions, sessionId)
       THEN /\ res' = [res EXCEPT ![c] = ErrorResponse(400,
                  "No session found. Please connect data sources first.",
                  FALSE)]
            /\ UNCHANGED stream
       ELSE LET session == sessions[sessionId] IN
            IF Len(session.connectedSources) = 0
            THEN /\ res' = [res EXCEPT ![c] = ErrorResponse(400,
                       "No data sources connected", FALSE)]
                 /\ UNCHANGED stream
            ELSE IF generateCampaignThrows(session.connectedSources,
                                           campaignType, selectedChannels)
            THEN /\ res' = [res EXCEPT ![c] = ErrorResponse(500,
                       "TypeError", TRUE)]
                 /\ UNCHANGED stream
            ELSE /\ res' = [res EXCEPT ![c] =
                       [statusCode |-> 200, error |-> "",
                        eventStream |-> TRUE, ended |-> FALSE]]
                 /\ stream' = [stream EXCEPT ![c] =
                       OpenStream(generateCampaign(session.connectedSources,
                                      campaignType, selectedChannels))]
    /\ sessions' = StoreAfterGenerate(sessions, sessionId)
    /\ UNCHANGED <<now, connectRes, written, closed, released, staticRes>>

\* a generate request of some other client
Generate(c, sessionId, type, channels) ==
    /\ GenerateHandler(c, sessionId, type, channels)
    /\ UNCHANGED clientVars

(***************************************************************************)
(* GET /api/health, /api/data-sources and /api/channels                    *)
(***************************************************************************)
\* Object.keys(DATA_SOURCES) and Object.keys(CHANNELS): the own keys, in
\* the order of the object literals
DataSourceKeys == <<"facebook-pixel", "shopify", "google-ads">>
ChannelKeys == <<"email", "sms", "whatsapp", "ads">>

Health ==
    /\ staticRes' = [path |-> "/api/health",
                     body |-> <<[status |-> "ok", timestamp |-> now]>>]
    /\ UNCHANGED <<sessions, now, connectRes, res, stream, written, closed,
                   released>>
    /\ UNCHANGED clientVars

\* the array that /api/data-sources answers with
DataSourcesBody ==
    [i \in 1..Len(DataSourceKeys) |->
        [id |-> DataSourceKeys[i],
         name |-> DATA_SOURCES(DataSourceKeys[i]).name]]

DataSources ==
    /\ staticRes' = [path |-> "/api/data-sources", body |-> DataSourcesBody]
    /\ UNCHANGED <<sessions, now, connectRes, res, stream, written, closed,
                   released>>
    /\ UNCHANGED clientVars

Channels ==
    /\ staticRes' = [path |-> "/api/channels",
                     body |-> [i \in 1..Len(ChannelKeys) |->
                                 [id |-> ChannelKeys[i],
                                  name |-> CHANNELS(ChannelKeys[i]).name]]]
    /\ UNCHANGED <<sessions, now, connectRes, res, stream, written, closed,
                   released>>
    /\ UNCHANGED clientVars

(***************************************************************************)
(* Specifications.                                                         *)
(***************************************************************************)
Next ==
    \/ \E sessionId \in SessionIdInputs, source \in SourceInputs :
           Connect(sessionId, source)
    \/ \E c \in Conns, sessionId \in SessionIdInputs, type \in TypeInputs,
          channels \in ChannelsInputs :
           Generate(c, sessionId, type, channels)
    \/ \E c \in Conns : Tick(c)
    \/ \E c \in Conns : Close(c)

Spec == Init /\ [][Next]_vars

\* the timer of an open stream keeps firing
FairSpec == Spec /\ \A c \in Conns : WF_vars(Tick(c))

\* the server with all its endpoints, for one session id
ServerNext ==
    \/ \E source \in SourceInputs : Connect("s1", source)
    \/ \E c \in Conns, sessionId \in SessionIdInputs,
          channels \in {Undefined, "fax"} :
           Generate(c, sessionId, "flash-sale", channels)
    \/ \E c \in Conns : Tick(c)
    \/ \E c \in Conns : Close(c)
    \/ Health
    \/ DataSources
    \/ Channels

ServerSpec == Init /\ [][ServerNext]_vars

\* streams on all connections at once, for the same session or for
\* different sessions, with connect calls in between
ConcurrentNext ==
    \/ \E source \in {"shopify", "constructor"} : Connect("s1", source)
    \/ Connect("s2", "shopify")
    \/ \E c \in Sockets, sessionId \in SessionIdInputs :
           Generate(c, sessionId, "flash-sale", Undefined)
    \/ \E c \in Sockets : Tick(c)
    \/ \E c \in Sockets : Close(c)

ConcurrentSpec == Init /\ [][ConcurrentNext]_vars

\* the flash-sale scenario: session s1 connects shopify, and further
\* sources after it, and asks for a flash-sale campaign on the sms channel;
\* another session connects sources of its own
ScenarioNext ==
    \/ Connect("s1", "shopify")
    \/ /\ Includes(SourcesOf(sessions, "s1"), "shopify")
       /\ Connect("s1", "facebook-pixel")
    \/ \E source \in {"shopify", "google-ads"} : Connect("s2", source)
    \/ \E c \in Conns : Generate(c, "s1", "flash-sale", "sms")
    \/ \E c \in Conns : Tick(c)
    \/ \E c \in Conns : Close(c)

ScenarioSpec == Init /\ [][ScenarioNext]_vars

(***************************************************************************)
(* The client: the App component, as listed in src/SETUP_GUIDE.md.  Every  *)
(* handler reads the state of the render that created it.  A click or a    *)
(* submit runs the handler of the current render; the setTimeout callback  *)
(* of handleSendMessage runs with the inputValue, connectedSources and     *)
(* selectedChannels of the render in which the message was submitted.      *)
(* Message ids (Date.now() plus an offset) are taken to be distinct        *)
(* between the streaming messages: the id of a streaming message is the    *)
(* number of its connection, every other message has id 0.                 *)
(***************************************************************************)
\* number of clicks and submits of the user the model follows
MaxGestures == 4

\* the data source cards and channel buttons the user clicks
SourceClicks == {"shopify"}
ChannelClicks == {"sms", "email"}
\* the campaign type of the quick-action button the user clicks
QuickActions == {"flash-sale"}
\* the texts the user submits
MessageInputs == {"Create a flash sale campaign", "hello"}

serverVars == <<sessions, now, connectRes, res, stream, written, closed,
                released, staticRes>>

\* String.prototype.includes
StringIncludes(s, sub) ==
    \E i \in 1..(Len(s) - Len(sub) + 1) : SubSeq(s, i, i + Len(sub) - 1) = sub

\* String.prototype.toLowerCase, for the letters A-Z
UpperCaseLetters == "ABCDEFGHIJKLMNOPQRSTUVWXYZ"
LowerCaseLetters == "abcdefghijklmnopqrstuvwxyz"
RECURSIVE toLowerCase(_)
toLowerCase(s) ==
    IF s = "" THEN ""
    ELSE LET ch == SubSeq(s, 1, 1)
             p == IndexOfFrom(UpperCaseLetters, ch, 1)
         IN  (IF p = 0 THEN ch ELSE SubSeq(LowerCaseLetters, p, p))
             \o toLowerCase(Slice(s, 1, Len(s)))

\* String.prototype.trim, for blanks
RECURSIVE Trim(_)
Trim(s) ==
    IF s = "" THEN ""
    ELSE IF SubSeq(s, 1, 1) = " " THEN Trim(Slice(s, 1, Len(s)))
    ELSE IF SubSeq(s, Len(s), Len(s)) = " " THEN Trim(Slice(s, 0, Len(s) - 1))
    ELSE s

\* Array.prototype.join
RECURSIVE Join(_, _)
Join(arr, sep) ==
    IF arr = <<>> THEN ""
    ELSE IF Len(arr) = 1 THEN arr[1]
    ELSE arr[1] \o sep \o Join(Tail(arr), sep)

\* [...new Set([...prev, x])]
AddToSet(prev, x) == IF Includes(prev, x) THEN prev ELSE Append(prev, x)

\* the updater of handleSelectChannel
ToggleChannel(prev, channelId) ==
    IF Includes(prev, channelId)
    THEN SelectSeq(prev, LAMBDA id : id # channelId)
    ELSE Append(prev, channelId)

\* a message of the chat; completeData NoDocument: the field is absent
Message(id, type, content) ==
    [id |-> id, type |-> type, content |-> content, isStreaming |-> FALSE,
     completeData |-> NoDocument]

SourceWarning ==
    "Please connect at least one data source before generating a campaign."
ChannelWarning ==
    "Please select at least one channel before generating a campaign."
LoadingText ==
    "Analyzing your connected data sources and generating an optimized campaign..."
SuccessText == "Campaign generated successfully!"
ErrorText == "Error generating campaign. Please try again."

\* the campaign type the timeout callback of handleSendMessage asks for,
\* Undefined for a message it answers itself
campaignTypeOfMessage(inputValue) ==
    LET lowercaseInput == toLowerCase(inputValue) IN
    IF \/ StringIncludes(lowercaseInput, "generate")
       \/ StringIncludes(lowercaseInput, "campaign")
       \/ StringIncludes(lowercaseInput, "create")
    THEN "general"
    ELSE IF \/ StringIncludes(lowercaseInput, "flash")
            \/ StringIncludes(lowercaseInput, "sale")
            \/ StringIncludes(lowercaseInput, "urgent")
    THEN "flash-sale"
    ELSE IF \/ StringIncludes(lowercaseInput, "product launch")
            \/ StringIncludes(lowercaseInput, "new product")
    THEN "product-launch"
    ELSE Undefined

\* the answer of the timeout callback to a message that asks for no campaign
ResponseTo(inputValue) ==
    LET lowercaseInput == toLowerCase(inputValue) IN
    IF \/ StringIncludes(lowercaseInput, "help")
       \/ StringIncludes(lowercaseInput, "what can you do")
    THEN "I can help you with:"
    ELSE IF StringIncludes(lowercaseInput, "connect")
    THEN "Please use the data source cards on the left sidebar to connect your sources."
    ELSE "I understand you said: \"" \o inputValue \o "\""

\* prev.map(msg => msg.id === id ? { ...msg, content } : msg)
WithContent(messages, id, content) ==
    [i \in 1..Len(messages) |->
        IF messages[i].id = id
        THEN [messages[i] EXCEPT !.content = content]
        ELSE messages[i]]

\* prev.map(msg => msg.id === id ? { ...msg, content:
\*   JSON.stringify(complete, null, 2), isStreaming: false,
\*   completeData: complete } : msg)
WithComplete(messages, id, complete) ==
    [i \in 1..Len(messages) |->
        IF messages[i].id = id
        THEN [messages[i] EXCEPT !.content = Stringify(complete),
                                 !.isStreaming = FALSE,
                                 !.completeData = complete]
        ELSE messages[i]]

\* a handler that keeps the last chunk only
AccumulateLastChunk(accumulatedContent, chunk) == chunk

\* accumulatedContent += data.chunk
Accumulate(accumulatedContent, chunk) == accumulatedContent \o chunk

\* the mount effect: fetchDataSources puts the answer of /api/data-sources
\* into availableSources
FetchDataSources ==
    /\ client.availableSources = <<>>
    /\ client' = [client EXCEPT !.availableSources = DataSourcesBody]
    /\ UNCHANGED <<serverVars, eventSource>>

\* handleConnectSource up to its first await: the click on an enabled data
\* source card sends the connect request, which the server handles
ClickConnect(sourceId) ==
    /\ client.gestures < MaxGestures
    /\ \E i \in 1..Len(client.availableSources) :
           client.availableSources[i].id = sourceId
    /\ ~Includes(client.connectedSources, sourceId)
    /\ ConnectBounded(MaxGestures, client.sessionId, sourceId)
    /\ client' = [client EXCEPT
                    !.gestures = @ + 1,
                    !.responses = @ \cup
                        {[sourceId |-> sourceId,
                          success |-> connectRes'.statusCode = 200,
                          source |-> DATA_SOURCES(sourceId).name,
                          connectedSources |->
                              connectRes'.connectedSources]}]
    /\ UNCHANGED eventSource

\* handleConnectSource after its awaits: the response arrived
ConnectResponse(data) ==
    /\ data \in client.responses
    /\ client' =
         IF data.success
         THEN [client EXCEPT
                 !.responses = @ \ {data},
                 !.connectedSources = AddToSet(@, data.sourceId),
                 !.messages = Append(@, Message(0, "assistant",
                     "Successfully connected to **" \o data.source
                     \o "**!\n\nConnected sources: "
                     \o Join(data.connectedSources, ", ")))]
         ELSE [client EXCEPT !.responses = @ \ {data}]
    /\ UNCHANGED <<serverVars, eventSource>>

\* handleSelectChannel: a click on a channel button
ClickChannel(channelId) ==
    /\ client.gestures < MaxGestures
    /\ client' = [client EXCEPT
                    !.gestures = @ + 1,
                    !.selectedChannels = ToggleChannel(@, channelId)]
    /\ UNCHANGED <<serverVars, eventSource>>

\* handleGenerateCampaign(campaignType) of a render whose state had the
\* given connectedSources and selectedChannels; base is the client with
\* the state updates of the caller.  new EventSource(url) sends the
\* generate request on the first unused connection, and the server handles
\* it.
handleGenerateCampaign(base, connectedSources, selectedChannels, campaignType) ==
    IF Len(connectedSources) = 0
    THEN /\ client' = [base EXCEPT !.messages =
                  Append(@, Message(0, "assistant", SourceWarning))]
         /\ UNCHANGED <<serverVars, eventSource>>
    ELSE IF Len(selectedChannels) = 0
    THEN /\ client' = [base EXCEPT !.messages =
                  Append(@, Message(0, "assistant", ChannelWarning))]
         /\ UNCHANGED <<serverVars, eventSource>>
    ELSE \E c \in Sockets :
            /\ \A d \in Sockets : d < c => res[d] # NoResponse
            /\ GenerateHandler(c, base.sessionId, campaignType,
                               Join(selectedChannels, ","))
            /\ client' = [base EXCEPT
                  !.isStreaming = TRUE,
                  !.messages = @ \o
                      <<Message(0, "assistant", LoadingText),
                        [Message(c, "campaign", "")
                            EXCEPT !.isStreaming = TRUE]>>]
            /\ eventSource' = [eventSource EXCEPT ![c] =
                  [readyState |-> "open", received |-> 0,
                   accumulatedContent |-> "", streamMessageId |-> c]]

\* a click on a quick-action button, which is disabled without a connected
\* source, without a selected channel and while isStreaming
ClickGenerate(campaignType) ==
    /\ client.gestures < MaxGestures
    /\ Len(client.connectedSources) # 0
    /\ Len(client.selectedChannels) # 0
    /\ ~client.isStreaming
    /\ handleGenerateCampaign([client EXCEPT !.gestures = @ + 1],
                              client.connectedSources,
                              client.selectedChannels, campaignType)

\* handleSendMessage: the form is submitted with the text inputValue
SubmitMessage(inputValue) ==
    /\ client.gestures < MaxGestures
    /\ ~(Trim(inputValue) = "" \/ client.isLoading \/ client.isStreaming)
    /\ client' = [client EXCEPT
                    !.gestures = @ + 1,
                    !.messages = Append(@, Message(0, "user", inputValue)),
                    !.isLoading = TRUE,
                    !.timer = [pending |-> TRUE,
                               inputValue |-> inputValue,
                               connectedSources |-> client.connectedSources,
                               selectedChannels |-> client.selectedChannels]]
    /\ UNCHANGED <<serverVars, eventSource>>

\* the callback that handleSendMessage passed to setTimeout
TimerFires ==
    /\ client.timer.pending
    /\ LET timer == client.timer
           campaignType == campaignTypeOfMessage(timer.inputValue)
           base == [client EXCEPT !.timer = NoTimer, !.isLoading = FALSE]
       IN  IF campaignType # Undefined
           THEN handleGenerateCampaign(base, timer.connectedSources,
                                       timer.selectedChannels, campaignType)
           ELSE /\ client' = [base EXCEPT !.messages =
                         Append(@, Message(0, "assistant",
                                           ResponseTo(timer.inputValue)))]
                /\ UNCHANGED <<serverVars, eventSource>>

\* eventSource.onmessage for the next event of connection c; the event is
\* the object that the server serialized into the frame
OnMessage(c) ==
    /\ eventSource[c].readyState = "open"
    /\ eventSource[c].received < Len(written[c])
    /\ LET data == written[c][eventSource[c].received + 1]
           streamMessageId == eventSource[c].streamMessageId
       IN  IF data.done
           THEN /\ eventSource' = [eventSource EXCEPT
                      ![c].readyState = "closed",
                      ![c].received = @ + 1]
                /\ client' = [client EXCEPT
                      !.isStreaming = FALSE,
                      !.messages = Append(
                          WithComplete(@, streamMessageId, data.complete),
                          Message(0, "assistant", SuccessText))]
           ELSE LET accumulatedContent ==
                        Accumulate(eventSource[c].accumulatedContent,
                                   data.chunk)
                IN  /\ eventSource' = [eventSource EXCEPT
                          ![c].accumulatedContent = accumulatedContent,
                          ![c].received = @ + 1]
                    /\ client' = [client EXCEPT !.messages =
                          WithContent(@, streamMessageId,
                                      accumulatedContent)]
    /\ UNCHANGED serverVars

\* eventSource.onerror: the response was no event stream, or the connection
\* ended before a terminal event arrived
OnError(c) ==
    /\ eventSource[c].readyState = "open"
    /\ eventSource[c].received = Len(written[c])
    /\ res[c].ended
    /\ eventSource' = [eventSource EXCEPT ![c].readyState = "closed"]
    /\ client' = [client EXCEPT
                    !.isStreaming = FALSE,
                    !.messages = Append(@, Message(0, "assistant",
                                                   ErrorText))]
    /\ UNCHANGED serverVars

\* the browser tab and the server it talks to
ClientNext ==
    \/ FetchDataSources
    \/ \E sourceId \in SourceClicks : ClickConnect(sourceId)
    \/ \E data \in client.responses : ConnectResponse(data)
    \/ \E channelId \in ChannelClicks : ClickChannel(channelId)
    \/ \E campaignType \in QuickActions : ClickGenerate(campaignType)
    \/ \E inputValue \in MessageInputs : SubmitMessage(inputValue)
    \/ TimerFires
    \/ \E c \in Sockets : OnMessage(c)
    \/ \E c \in Sockets : OnError(c)
    \/ \E c \in Sockets : Tick(c)
    \/ \E c \in Sockets : Close(c)

ClientSpec == Init /\ [][ClientNext]_vars

(***************************************************************************)
(* Properties of the stream.                                               *)
(***************************************************************************)
\* the chunk fields of the done=false events, concatenated in order
RECURSIVE ConcatChunks(_)
ConcatChunks(events) ==
    IF events = <<>> THEN ""
    ELSE (IF Head(events).done THEN "" ELSE Head(events).chunk)
         \o ConcatChunks(Tail(events))

\* the number of done=true events
RECURSIVE CountDone(_)
CountDone(events) ==
    IF events = <<>> THEN 0
    ELSE (IF Head(events).done THEN 1 ELSE 0) + CountDone(Tail(events))

\* streamJSONResponse was called for the connection
Opened(c) == stream[c].listening
\* the terminal event was written on the connection
Completed(c) == Len(written[c]) > 0 /\ written[c][Len(written[c])].done
\* ceil(L / ChunkSize)
TotalChunks(c) == (Len(stream[c].jsonString) + ChunkSize - 1) \div ChunkSize

\* C1: in a stream that ran to its terminal event, the chunks of the
\* done=false events, concatenated in the order written, are exactly the
\* pretty-printed serialization of the document.
ChunkConcatenationLaw ==
    \A c \in Conns :
        Completed(c) =>
            ConcatChunks(written[c]) = Stringify(stream[c].data)

\* a completed stream of several chunks whose length is no multiple of the
\* chunk size
CompletedOddLength ==
    \E c \in Conns :
        /\ Completed(c)
        /\ Len(stream[c].jsonString) > 2 * ChunkSize
        /\ Len(stream[c].jsonString) % ChunkSize # 0

\* C2: a done=true event is the last event written, there is at most one,
\* it carries chunk "" and the complete document, it goes with a cleared
\* timer and an ended response; and a stream that ended without a 'close'
\* event has written exactly one.
TerminalEventOnceAndLast ==
    \A c \in Conns :
        LET w == written[c] IN
        /\ \A i \in 1..Len(w) :
               w[i].done =>
                   /\ i = Len(w)
                   /\ w[i].chunk = ""
                   /\ w[i].complete = stream[c].data
                   /\ stream[c].interval = "cleared"
                   /\ res[c].ended
        /\ (Opened(c) /\ res[c].ended /\ ~closed[c]) => CountDone(w) = 1

\* a stream ended by its terminal event, all chunks before it, no 'close'
EndedByTerminalEvent ==
    \E c \in Conns :
        /\ Completed(c)
        /\ ~closed[c]
        /\ res[c].ended
        /\ Len(written[c]) = TotalChunks(c) + 1

\* C3: once the 'close' event of a connection was handled, nothing more is
\* written on it: no further chunk and no terminal event.
CancellationSafety ==
    [][\A c \in Conns : closed[c] => written'[c] = written[c]]_vars

\* a stream cancelled after k chunks, 0 < k < total chunks
CancelledMidStream ==
    \E c \in Conns :
        /\ closed[c]
        /\ Len(written[c]) > 0
        /\ Len(written[c]) < TotalChunks(c)
        /\ CountDone(written[c]) = 0

\* C4: per stream at most one teardown path runs; the timer and the
\* response are released by the terminal tick or by the 'close' handler,
\* never by both.
ExactlyOneTeardown ==
    \A c \in Conns : Len(released[c]) <= 1

\* C5: every opened stream eventually has its timer cleared and its
\* response ended, if its timer keeps ticking.
EveryStreamEnds ==
    \A c \in Conns :
        Opened(c) ~> (stream[c].interval = "cleared" /\ res[c].ended)

\* a stream that ended on its own, the 'close' event never delivered
EndedWithoutClose ==
    \E c \in Conns :
        /\ Opened(c)
        /\ released[c] = <<"terminal">>
        /\ stream[c].interval = "cleared"
        /\ ~closed[c]

\* C6 as claimed: the cursor stays within 0 .. L.
CursorWithinLength ==
    \A c \in Conns :
        /\ 0 <= stream[c].index
        /\ stream[c].index <= Len(stream[c].jsonString)

\* C6 as amended: the cursor is a multiple of the chunk size with
\* 0 <= cursor < L + ChunkSize, and it never decreases.
CursorWithinLastChunk ==
    /\ [](\A c \in Conns :
              /\ 0 <= stream[c].index
              /\ stream[c].index % ChunkSize = 0
              /\ stream[c].index < Len(stream[c].jsonString) + ChunkSize)
    /\ [][\A c \in Conns : stream'[c].index >= stream[c].index]_vars

\* a stream whose cursor has passed the end of the serialized document
CursorPastLength ==
    \E c \in Conns :
        /\ Completed(c)
        /\ stream[c].index > Len(stream[c].jsonString)

\* C7: a request whose response was switched to an event stream ends by
\* the terminal event or by a disconnect, never with an error response.
StreamEndsWithoutError ==
    \A c \in Conns :
        (res[c].eventStream /\ res[c].ended) =>
            /\ res[c].statusCode = 200
            /\ res[c].error = ""
            /\ released[c] # <<>>

UnknownSourceRejected ==
    [][\A sessionId \in SessionIdInputs, source \in SourceInputs :
           (Connect(sessionId, source) /\ source \notin KnownSources) =>
             /\ connectRes'.statusCode = 400
             /\ connectRes'.error = "Invalid data source"
             /\ sessions' = sessions]_vars

(***************************************************************************)
(* The session store alone: connect calls with every kind of source.       *)
(***************************************************************************)
StoreNext ==
    \E sessionId \in SessionIdInputs, source \in StoreSourceInputs :
        StoreConnect(sessionId, source)

StoreSpec == Init /\ [][StoreNext]_vars

\* C11: every source list of the store holds only identifiers of the known
\* enum (facebook-pixel, shopify, google-ads), whatever sources the connect
\* calls were made with.
OnlyKnownSourcesStored ==
    \A sessionId \in DOMAIN sessions :
        \A i \in 1..Len(sessions[sessionId].connectedSources) :
            sessions[sessionId].connectedSources[i] \in KnownSources

\* C12: no source list ever holds an identifier twice; connecting to the
\* store a pair (sessionId, source) a second time yields the store of the
\* first time; and a connect call for a source the session already has
\* leaves the store as it is and returns the names of the unchanged list.
IdempotentConnect ==
    /\ [](\A sessionId \in DOMAIN sessions :
              LET list == sessions[sessionId].connectedSources IN
              \A i, j \in 1..Len(list) : list[i] = list[j] => i = j)
    /\ [](\A sessionId \in SessionIdInputs, source \in StoreSourceInputs :
              LET once == ConnectStore(sessions, sessionId, source, now)
              IN  ConnectStore(once, sessionId, source, now + 1) = once)
    /\ [][\A sessionId \in SessionIdInputs, source \in StoreSourceInputs :
            (Includes(SourcesOf(sessions, sessionId), source)
                /\ StoreConnect(sessionId, source)) =>
              /\ sessions' = sessions
              /\ connectRes'.statusCode = 200
              /\ connectRes'.connectedSources =
                   SourceNames(sessions[sessionId].connectedSources)]_vars

\* the second of two calls was accepted and added nothing: the only session
\* was created by the first call and still has one source
ConnectedTwiceListedOnce ==
    /\ now = 2
    /\ connectRes.statusCode = 200
    /\ \E sessionId \in SessionIdInputs :
           /\ DOMAIN sessions = {sessionId}
           /\ sessions[sessionId].createdAt = 0
           /\ Len(sessions[sessionId].connectedSources) = 1

\* C13: an accepted connect call puts a source the session does not have
\* at the end of the list and moves no source the session has, and it
\* returns the display names of the list in the order of the list: the
\* order in which the sources were first connected.
ConnectPreservesOrder ==
    [][\A sessionId \in SessionIdInputs, source \in StoreSourceInputs :
         (SourceAccepted(source) /\ StoreConnect(sessionId, source)) =>
           LET old == SourcesOf(sessions, sessionId)
               new == sessions'[sessionId].connectedSources
           IN  /\ new = IF Includes(old, source) THEN old
                        ELSE Append(old, source)
               /\ IsPrefix(old, new)
               /\ Len(connectRes'.connectedSources) = Len(new)
               /\ \A i \in 1..Len(new) :
                      connectRes'.connectedSources[i] =
                          DATA_SOURCES(new[i]).name]_vars

\* shopify, then facebook-pixel, then one of them again: the list and the
\* returned names keep the order of the first connections, which is not
\* the order of the DATA_SOURCES table
ReconnectedInFirstOrder ==
    /\ now = 3
    /\ sessions = ("s1" :> [connectedSources |->
                                <<"shopify", "facebook-pixel">>,
                            createdAt |-> 0])
    /\ connectRes.connectedSources = <<"Shopify", "Facebook Pixel">>

\* C17: a session in the store stays in the store, its createdAt never
\* changes, and its source list after a step has its list before the step
\* as a prefix; so sessions are never deleted and their lists only grow.
SessionsOnlyGrow ==
    [][\A sessionId \in DOMAIN sessions :
           /\ sessionId \in DOMAIN sessions'
           /\ sessions'[sessionId].createdAt = sessions[sessionId].createdAt
           /\ IsPrefix(sessions[sessionId].connectedSources,
                       sessions'[sessionId].connectedSources)]_vars

\* a session created by the first connect call whose list grew by a later
\* call, and a stream that was opened and ended in the meantime or after
GrownSessionAfterStream ==
    /\ \E sessionId \in DOMAIN sessions :
           /\ sessions[sessionId].createdAt = 0
           /\ Len(sessions[sessionId].connectedSources) = 2
    /\ \E c \in Conns : Opened(c) /\ res[c].ended

\* C14: only a connect call changes the session store: the handler of a
\* generate request (whether it rejects, throws or opens a stream), every
\* tick of a stream, the 'close' handler and the health, data-sources and
\* channels endpoints leave the Map and every source list as they are.
StoreMutatedOnlyByConnect ==
    [][((\E c \in Conns, sessionId \in SessionIdInputs,
            channels \in ChannelsInputs :
               Generate(c, sessionId, "flash-sale", channels))
        \/ (\E c \in Conns : Tick(c) \/ Close(c))
        \/ Health \/ DataSources \/ Channels)
       => sessions' = sessions]_vars

\* a store with a source list, a stream that was closed after its terminal
\* event, and an answered data-sources call
StoreAfterEveryEndpoint ==
    /\ \E sessionId \in DOMAIN sessions :
           Len(sessions[sessionId].connectedSources) > 0
    /\ \E c \in Conns : Completed(c) /\ closed[c]
    /\ staticRes.path = "/api/data-sources"

(***************************************************************************)
(* Properties of concurrent streams.                                       *)
(***************************************************************************)
\* the i-th event of a stream that runs alone: the chunk at 50*(i-1), and
\* the terminal event after the last chunk
EventAlone(c, i) ==
    IF i <= TotalChunks(c)
    THEN ChunkEvent(Slice(stream[c].jsonString, (i - 1) * ChunkSize,
                          i * ChunkSize))
    ELSE TerminalEvent(stream[c].data)

\* the number of done=false events
CountChunks(events) == Len(events) - CountDone(events)

\* C15: with streams open on several connections, every stream has written
\* the events it would have written alone, in cursor order, and its cursor
\* stands right after its own last chunk; and a tick or a 'close' event of
\* one connection changes nothing of any other connection: not its
\* closure (cursor, timer), its events, its response or its flags.
StreamsIndependent ==
    /\ [](\A c \in Sockets :
              /\ Len(written[c]) <= TotalChunks(c) + 1
              /\ \A i \in 1..Len(written[c]) : written[c][i] = EventAlone(c, i)
              /\ stream[c].index = ChunkSize * CountChunks(written[c]))
    /\ [][\A c \in Sockets :
            (Tick(c) \/ Close(c)) =>
              \A d \in Sockets \ {c} :
                  /\ stream'[d] = stream[d]
                  /\ written'[d] = written[d]
                  /\ res'[d] = res[d]
                  /\ closed'[d] = closed[d]
                  /\ released'[d] = released[d]]_vars

\* one stream was cancelled mid-way, another ran to its terminal event
\* with all its chunks
CancelledBesideCompleted ==
    \E c, d \in Sockets :
        /\ c # d
        /\ closed[c]
        /\ Len(written[c]) > 0
        /\ Len(written[c]) < TotalChunks(c)
        /\ Completed(d)
        /\ ~closed[d]
        /\ Len(written[d]) = TotalChunks(d) + 1

\* C16: the closure of a stream gets the document made from the session's
\* list at the time of the request, and its serialization; neither changes
\* afterwards; a connect call changes no closure and no written event; and
\* every chunk written is the slice of that serialization at the cursor,
\* the terminal event carries that document.
DocumentFixedAtRequest ==
    /\ [][\A c \in Sockets, sessionId \in SessionIdInputs :
            (Generate(c, sessionId, "flash-sale", Undefined)
                /\ stream'[c].listening) =>
              /\ stream'[c].data.campaign.dataSources =
                   SourceNames(sessions[sessionId].connectedSources)
              /\ stream'[c].jsonString = Stringify(stream'[c].data)]_vars
    /\ [][\A c \in Sockets :
            Opened(c) => /\ stream'[c].jsonString = stream[c].jsonString
                         /\ stream'[c].data = stream[c].data]_vars
    /\ [][sessions' # sessions => (stream' = stream /\ written' = written)]_vars
    /\ [](\A c \in Sockets :
              /\ ConcatChunks(written[c]) =
                   Slice(stream[c].jsonString, 0,
                         ChunkSize * CountChunks(written[c]))
              /\ \A i \in 1..Len(written[c]) :
                     written[c][i].done =>
                         written[c][i].complete = stream[c].data)

\* a completed stream whose document lists fewer sources than the only
\* session of the store has now: a connect call came after the request
ConnectedAfterRequest ==
    \E c \in Sockets, sessionId \in SessionIdInputs :
        /\ Completed(c)
        /\ DOMAIN sessions = {sessionId}
        /\ Len(stream[c].data.campaign.dataSources)
             < Len(sessions[sessionId].connectedSources)

(***************************************************************************)
(* The flash-sale scenario.                                                *)
(***************************************************************************)
\* C18: once s1 has connected shopify, its generate request with type
\* flash-sale and channels sms is answered with a stream, and the terminal
\* event of that stream carries channel.primary "sms" and a
\* campaign.dataSources that contains the display name of Shopify.
FlashSaleOnSms ==
    /\ [][\A c \in Conns :
            (Has(sessions, "s1")
                /\ Generate(c, "s1", "flash-sale", "sms")) =>
              /\ res'[c].statusCode = 200
              /\ res'[c].eventStream
              /\ stream'[c].interval = "active"]_vars
    /\ [](\A c \in Conns :
              Completed(c) =>
                  LET complete == written[c][Len(written[c])].complete IN
                  /\ complete.channel.primary = "sms"
                  /\ complete.campaign.type = "flash-sale"
                  /\ Includes(complete.campaign.dataSources,
                              DATA_SOURCES("shopify").name))

\* the stream of the scenario ran to its terminal event, all chunks sent
FlashSaleStreamCompleted ==
    \E c \in Conns :
        /\ Includes(SourcesOf(sessions, "s1"), "shopify")
        /\ Completed(c)
        /\ Len(written[c]) = TotalChunks(c) + 1
        /\ written[c][Len(written[c])].complete.channel.name = "SMS"

(***************************************************************************)
(* Properties of the client.                                               *)
(***************************************************************************)
\* the client opened an EventSource on connection c in this step
OpensEventSource(c) ==
    /\ eventSource[c].readyState = "none"
    /\ eventSource'[c].readyState = "open"

\* the last message of the chat is one of the two warnings
WarningAppended(messages) ==
    /\ Len(messages) > 0
    /\ messages[Len(messages)].content \in {SourceWarning, ChannelWarning}

\* C19: the client opens an EventSource only in a state whose
\* connectedSources and selectedChannels are both non-empty; and a call of
\* handleGenerateCampaign in a state where one of them is empty appends a
\* warning and opens no EventSource.
GenerateOnlyWithSourceAndChannel ==
    /\ [][\A c \in Sockets :
            OpensEventSource(c) =>
              /\ Len(client.connectedSources) > 0
              /\ Len(client.selectedChannels) > 0]_vars
    /\ [][(/\ TimerFires
           /\ campaignTypeOfMessage(client.timer.inputValue) # Undefined
           /\ \/ Len(client.connectedSources) = 0
              \/ Len(client.selectedChannels) = 0) =>
             /\ eventSource' = eventSource
             /\ Len(client'.messages) = Len(client.messages) + 1
             /\ WarningAppended(client'.messages)]_vars

OneEventPerTick ==
    /\ [][\A c \in Conns :
            /\ Tick(c) => Len(written'[c]) = Len(written[c]) + 1
            /\ (res[c] = NoResponse /\ res'[c] # NoResponse) =>
                   written'[c] = <<>>
            /\ Len(written'[c]) <= Len(written[c]) + 1]_vars
    /\ [](\A c \in Conns :
              /\ \A i \in 1..Len(written[c]) :
                     ~written[c][i].done =>
                         /\ i <= TotalChunks(c)
                         /\ Len(written[c][i].chunk) >= 1
                         /\ Len(written[c][i].chunk) <= ChunkSize
                         /\ i < TotalChunks(c) =>
                                Len(written[c][i].chunk) = ChunkSize
              /\ Completed(c) =>
                     /\ CountChunks(written[c]) = TotalChunks(c)
                     /\ Len(written[c]) = TotalChunks(c) + 1)

\* a stream that was never cancelled ran to its end, and its last chunk
\* is shorter than the chunk size
LastChunkShorter ==
    \E c \in Conns :
        /\ Completed(c)
        /\ ~closed[c]
        /\ TotalChunks(c) > 1
        /\ Len(written[c][TotalChunks(c)].chunk) < ChunkSize
        /\ Len(written[c][TotalChunks(c) - 1].chunk) = ChunkSize

\* the 'close' event of connection c came after the last chunk and before
\* the tick of the terminal event
ClosedAfterLastChunk(c) ==
    /\ closed[c]
    /\ Len(written[c]) > 0
    /\ ~written[c][Len(written[c])].done
    /\ stream[c].index >= Len(stream[c].jsonString)

\* C22: a stream closed after its last chunk and before the tick of the
\* terminal event has written every character of the serialized document
\* and no done=true event, and it never writes anything again.
NoTerminalAfterLateClose ==
    /\ [](\A c \in Conns :
              ClosedAfterLastChunk(c) =>
                  /\ ConcatChunks(written[c]) = stream[c].jsonString
                  /\ CountDone(written[c]) = 0
                  /\ stream[c].interval = "cleared")
    /\ [][\A c \in Conns :
            ClosedAfterLastChunk(c) => written'[c] = written[c]]_vars

\* all chunks of a stream of several chunks were written, then it closed
AllChunksNoTerminal ==
    \E c \in Conns :
        /\ ClosedAfterLastChunk(c)
        /\ Len(written[c]) = TotalChunks(c)
        /\ TotalChunks(c) > 2
        /\ res[c].ended

\* C23: every session of the store has at least one connected source, and
\* no generate request is answered 'No data sources connected'.
EverySessionHasASource ==
    /\ \A sessionId \in DOMAIN sessions :
           Len(sessions[sessionId].connectedSources) >= 1
    /\ \A c \in Conns : res[c].error # "No data sources connected"

\* a generate request for a session of the store passed the validation
\* while a session created by a later connect call exists as well
ValidatedWithSessions ==
    /\ \E c \in Conns : res[c].statusCode = 200 /\ Opened(c)
    /\ \E sessionId \in DOMAIN sessions : sessions[sessionId].createdAt > 0

\* C24: a connect call for one session id, accepted or rejected, leaves
\* every other session id as it was: in the store or not, and with the
\* same source list and createdAt.
ConnectLeavesOtherSessions ==
    [][\A sessionId \in SessionIdInputs, source \in StoreSourceInputs :
         StoreConnect(sessionId, source) =>
           \A other \in SessionIdInputs \ {sessionId} :
               /\ Has(sessions', other) = Has(sessions, other)
               /\ Has(sessions, other) =>
                      sessions'[other] = sessions[other]]_vars

\* two sessions with different lists and creation times, and a rejected
\* call after them
TwoSessionsThenRejected ==
    /\ now = 3
    /\ connectRes.statusCode = 400
    /\ DOMAIN sessions = {"s1", "s2"}
    /\ sessions["s1"].connectedSources # sessions["s2"].connectedSources
    /\ sessions["s1"].createdAt # sessions["s2"].createdAt

(***************************************************************************)
(* The generator under every campaign type and channel selection: one      *)
(* session connects the three sources in any order, and a request, on the  *)
(* first connection, carries any of the type and channels parameters       *)
(* below.  The document of a request depends on nothing but its parameters *)
(* and the session's list, so one request at a time is followed.           *)
(***************************************************************************)
GeneratorConns == {CHOOSE c \in Conns : \A d \in Conns : c <= d}
GeneratorSources == {"facebook-pixel", "shopify", "google-ads"}
GeneratorTypes ==
    {Undefined, "", "general", "seasonal", "flash-sale", "urgent",
     "product-launch", "detailed", "retargeting", "awareness"}
GeneratorChannels ==
    {Undefined, "", "sms", "email", "ads", "whatsapp", "email,sms",
     "sms,email", "whatsapp,ads", "ads,whatsapp,email", "fax"}

GeneratorNext ==
    \/ \E source \in GeneratorSources : Connect("s1", source)
    \/ \E c \in GeneratorConns, type \in GeneratorTypes,
          channels \in GeneratorChannels :
           Generate(c, "s1", type, channels)

GeneratorSpec == Init /\ [][GeneratorNext]_vars

\* the list a channels parameter stands for, written out
ChannelList(channels) ==
    CASE channels = "sms" -> <<"sms">>
      [] channels = "email" -> <<"email">>
      [] channels = "ads" -> <<"ads">>
      [] channels = "whatsapp" -> <<"whatsapp">>
      [] channels = "email,sms" -> <<"email", "sms">>
      [] channels = "sms,email" -> <<"sms", "email">>
      [] channels = "whatsapp,ads" -> <<"whatsapp", "ads">>
      [] channels = "ads,whatsapp,email" -> <<"ads", "whatsapp", "email">>
      [] channels = "fax" -> <<"fax">>
      [] OTHER -> <<>>

\* the document of the stream that a request step opened on connection c
Generated(c) == res[c] = NoResponse /\ res'[c].statusCode = 200

\* C25: a request without a type parameter, or with an empty one, is
\* treated as type "general", any other type is taken as sent; a request
\* without a channels parameter, or with an empty one, selects no channel,
\* any other selects the comma-separated channels in the order given.
RequestDefaults ==
    [][\A c \in GeneratorConns, type \in GeneratorTypes,
          channels \in GeneratorChannels :
         Generate(c, "s1", type, channels) =>
           /\ campaignTypeOf(type) =
                  (IF type \in {Undefined, ""} THEN "general" ELSE type)
           /\ selectedChannelsOf(channels) = ChannelList(channels)
           /\ channels \in {Undefined, ""} =>
                  selectedChannelsOf(channels) = <<>>
           /\ Generated(c) =>
                  stream'[c].data.campaign.type =
                      (IF type \in {Undefined, ""} THEN "general"
                       ELSE type)]_vars

\* a request of no sent type was answered with a general campaign for two
\* connected sources
GeneralCampaignGenerated ==
    \E c \in Conns :
        /\ Opened(c)
        /\ stream[c].data.campaign.type = "general"
        /\ Len(stream[c].data.campaign.dataSources) = 2

\* C26: when the request selects at least one channel, channel.primary of
\* the generated document is one of the selected channels: sms for type
\* flash-sale or urgent if sms is selected, email for product-launch or
\* detailed if email is selected, ads for retargeting or awareness if ads
\* is selected, and the first selected channel otherwise.
PrimaryAmongSelected ==
    [][\A c \in GeneratorConns, type \in GeneratorTypes,
          channels \in GeneratorChannels :
         (/\ Generate(c, "s1", type, channels)
          /\ Generated(c)
          /\ ChannelList(channels) # <<>>) =>
           LET selected == ChannelList(channels)
               primary == stream'[c].data.channel.primary
               smsCase == type \in {"flash-sale", "urgent"}
                              /\ Includes(selected, "sms")
               emailCase == type \in {"product-launch", "detailed"}
                                /\ Includes(selected, "email")
               adsCase == type \in {"retargeting", "awareness"}
                              /\ Includes(selected, "ads")
           IN  /\ Includes(selected, primary)
               /\ smsCase => primary = "sms"
               /\ emailCase => primary = "email"
               /\ adsCase => primary = "ads"
               /\ ~(smsCase \/ emailCase \/ adsCase) =>
                      primary = selected[1]]_vars

\* a flash-sale document whose primary channel is not sms: sms was not
\* among the selected channels, and the first selected one was taken
FlashSaleNotOnSms ==
    \E c \in Conns :
        /\ Opened(c)
        /\ stream[c].data.campaign.type = "flash-sale"
        /\ stream[c].data.channel.primary = "whatsapp"

\* C27: when the request selects no channel, channel.primary is sms for
\* type flash-sale or urgent, email for product-launch or detailed, ads
\* for retargeting or awareness; for any other type it is whatsapp if the
\* estimated reach is below 5000 and email otherwise, where the reach is
\* 15420 for a connected facebook-pixel plus 8450 for a connected shopify;
\* so whatsapp is chosen exactly when neither of the two is connected.
PrimaryWithoutSelection ==
    [][\A c \in GeneratorConns, type \in GeneratorTypes,
          channels \in GeneratorChannels :
         (/\ Generate(c, "s1", type, channels)
          /\ Generated(c)
          /\ ChannelList(channels) = <<>>) =>
           LET connected == sessions["s1"].connectedSources
               document == stream'[c].data
               primary == document.channel.primary
               reach == (IF Includes(connected, "facebook-pixel")
                         THEN 15420 ELSE 0)
                        + (IF Includes(connected, "shopify")
                           THEN 8450 ELSE 0)
           IN  /\ document.campaign.estimatedReach = reach
               /\ type \in {"flash-sale", "urgent"} => primary = "sms"
               /\ type \in {"product-launch", "detailed"} =>
                      primary = "email"
               /\ type \in {"retargeting", "awareness"} => primary = "ads"
               /\ type \in {Undefined, "", "general", "seasonal"} =>
                      /\ primary = (IF reach < 5000 THEN "whatsapp"
                                    ELSE "email")
                      /\ primary = "whatsapp" <=>
                             ~(\/ Includes(connected, "facebook-pixel")
                               \/ Includes(connected, "shopify"))]_vars

\* a seasonal campaign for the customers of the shop alone went to email:
\* no channel was selected, and the reach of 8450 is not below 5000
ShopAloneOnEmail ==
    \E c \in Conns :
        /\ Opened(c)
        /\ stream[c].data.campaign.type = "seasonal"
        /\ stream[c].data.campaign.dataSources = <<"Shopify">>
        /\ stream[c].data.campaign.estimatedReach = 8450
        /\ stream[c].data.channel.primary = "email"
        /\ sessions["s1"].connectedSources = <<"shopify", "google-ads">>

(***************************************************************************)
(* Further properties of the client.                                       *)
(***************************************************************************)
\* the campaign type that the keywords of a typed message stand for
KeywordType(lowercaseInput) ==
    IF \/ StringIncludes(lowercaseInput, "flash")
       \/ StringIncludes(lowercaseInput, "sale")
       \/ StringIncludes(lowercaseInput, "urgent")
    THEN "flash-sale"
    ELSE IF \/ StringIncludes(lowercaseInput, "product launch")
            \/ StringIncludes(lowercaseInput, "new product")
    THEN "product-launch"
    ELSE IF \/ StringIncludes(lowercaseInput, "generate")
            \/ StringIncludes(lowercaseInput, "campaign")
            \/ StringIncludes(lowercaseInput, "create")
    THEN "general"
    ELSE Undefined

\* C28: the stream opened for a typed message is of the type its keywords
\* stand for: flash-sale for a message mentioning flash, sale or urgent,
\* product-launch for one mentioning "product launch" or "new product",
\* general for any other mentioning generate, campaign or create.
TypedMessageSelectsType ==
    [][TimerFires =>
         \A c \in Sockets :
             OpensEventSource(c) =>
                 stream'[c].data.campaign.type =
                     KeywordType(toLowerCase(client.timer.inputValue))]_vars

\* C29: at most one EventSource of the client is open at any time, and no
\* EventSource is opened while isStreaming is true.
AtMostOneStreamOpen ==
    /\ [](Cardinality({c \in Sockets :
                          eventSource[c].readyState = "open"}) <= 1)
    /\ [][\A c \in Sockets :
            OpensEventSource(c) => ~client.isStreaming]_vars

\* C30: the client's connectedSources, and the list a pending delayed
\* handler captured, hold only sources of the server's list for the
\* client's sessionId; and no generate request of the client is answered
\* with a validation error.
ClientSourcesOnServer ==
    /\ [](\A i \in 1..Len(client.connectedSources) :
              /\ Has(sessions, client.sessionId)
              /\ Includes(sessions[client.sessionId].connectedSources,
                          client.connectedSources[i]))
    /\ [](\A i \in 1..Len(client.timer.connectedSources) :
              /\ Has(sessions, client.sessionId)
              /\ Includes(sessions[client.sessionId].connectedSources,
                          client.timer.connectedSources[i]))
    /\ [][\A c \in Sockets :
            OpensEventSource(c) =>
                /\ res'[c].statusCode = 200
                /\ res'[c].error = NoResponse.error
                /\ stream'[c] # NoStream]_vars

\* the client's request for its connected source was accepted and its
\* stream is being received
ClientRequestAccepted ==
    \E c \in Sockets :
        /\ eventSource[c].readyState = "open"
        /\ eventSource[c].received > 0
        /\ res[c].statusCode = 200
        /\ client.connectedSources = <<"shopify">>
        /\ sessions[client.sessionId].connectedSources = <<"shopify">>

====
